---- MODULE Spec2Model ----
(***************************************************************************)
(* Model of app.py, the AirQuality Guard dashboard: an MQTT listener       *)
(* thread that enqueues decoded payloads (on_message) and the Streamlit    *)
(* script thread that re-executes the page top to bottom: drain loop,      *)
(* sidebar button handlers, header, recording table, auto refresh.         *)
(*                                                                         *)
(* One browser session is modelled (one consumer of data_queue).  Widgets  *)
(* that change no state (selectbox, download button, charts) are left out. *)
(***************************************************************************)
EXTENDS Integers, Sequences, FiniteSets, TLC

VARIABLES
    data_queue,        \* queue.Queue shared by the listener and the script
    latest_data,       \* st.session_state.latest_data
    data_history,      \* st.session_state.data_history
    recording,         \* st.session_state.recording
    recording_buffer,  \* st.session_state.recording_buffer
    session_id,        \* st.session_state.session_id
    table_page,        \* st.session_state.table_page
    pc,                \* position of the script thread in the current run
    clicked,           \* the button whose click triggered the current run
    now,               \* datetime.now() as last read by the listener
    received,          \* number of messages delivered to on_message
    errors,            \* number of "Payload error:" lines printed
    uuids,             \* number of uuid4 tokens generated so far
    horizon,           \* exploration bound on received (never changes)
    pushed,            \* log: every observation put on data_queue, in order
    processed,         \* log: every observation taken by the drain loop
    idle_seqs,         \* log: seq of the observations put while recording = False
    hist_base          \* log: Len(processed) when data_history was last emptied

vars == <<data_queue, latest_data, data_history, recording, recording_buffer,
          session_id, table_page, pc, clicked, now, received, errors, uuids,
          horizon, pushed, processed, idle_seqs, hist_base>>

session == <<latest_data, data_history, recording, recording_buffer,
             session_id, table_page>>

logs == <<pushed, processed, idle_seqs, hist_base>>

----------------------------------------------------------------------------
(* Bounds of the exploration *)

MaxMsgs == 2        \* messages delivered to the listener in one behaviour
MaxUsec == 1        \* sub-second clock readings distinguished per second
MaxSessions == 2    \* recording sessions started in one behaviour
MaxWarmMsgs == 1    \* messages delivered after a start from InitWarm

(* Program constants *)

HistoryCap == 100       \* len(data_history) > 100
ITEMS_PER_PAGE == 10

----------------------------------------------------------------------------
(* Values *)

None == 0    \* session_id before the first session; tokens are 1, 2, ...

Time(s, u) == [sec |-> s, usec |-> u]

\* latest_data = {} : the empty dict, falsy in "if not data"
NoData == [seq |-> 0, timestamp |-> Time(0, 0), ai_score |-> "absent"]

\* What a message on the topic can be.  shape: "garbage" is not UTF-8 / not
\* JSON, "array" is JSON that is not an object, "object" is a JSON object.
\* ai_score of an object: "num" converts with float(), "absent" is a missing
\* key, "text" is a value float() rejects (non-numeric string, null, list).
Messages ==
    {[shape |-> "garbage", ai_score |-> "absent"],
     [shape |-> "array", ai_score |-> "absent"]}
    \cup {[shape |-> "object", ai_score |-> a] : a \in {"num", "absent", "text"}}

Buttons == {"start", "stop", "clear", "prev", "next"}

----------------------------------------------------------------------------
(* Pure helpers *)

\* json.loads(msg.payload.decode()) returns (does not raise)
JsonLoadsOk(m) == m.shape # "garbage"

\* payload['timestamp'] = ... succeeds: only a dict supports str keys
ItemAssignOk(m) == m.shape = "object"

\* the try body of on_message runs to data_queue.put
DecodeOk(m) == JsonLoadsOk(m) /\ ItemAssignOk(m)

\* the payload dict after payload['timestamp'] = datetime.now()
Stamp(m, n, t) == [seq |-> n, timestamp |-> t, ai_score |-> m.ai_score]

\* variant of Put: the new item goes to the front
MutPut(q, x) == <<x>> \o q

\* data_queue.put(payload)
Put(q, x) == Append(q, x)

\* the queue after data_queue.get() (FIFO); the item returned is Head(q)
GetRest(q) == Tail(q)

\* readings datetime.now() can return after a reading of t: the same
\* instant or the next one (a second has MaxUsec + 1 instants)
ClockNext(t) ==
    {t, IF t.usec < MaxUsec THEN Time(t.sec, t.usec + 1)
                            ELSE Time(t.sec + 1, 0)}

\* timestamp.strftime("%Y-%m-%d %H:%M:%S"): the sub-second part is dropped
Strftime(t) == t.sec

\* variant of HistoryUpdate: on overflow the newest entry is dropped
MutHistoryUpdate(h, x) ==
    IF h = <<>> \/ h[Len(h)].timestamp # x.timestamp
    THEN LET a == Append(h, x)
         IN  IF Len(a) > HistoryCap THEN SubSeq(a, 1, Len(a) - 1) ELSE a
    ELSE h

\* 1. Update History untuk Grafik Live
HistoryUpdate(h, x) ==
    IF h = <<>> \/ h[Len(h)].timestamp # x.timestamp
    THEN LET a == Append(h, x)
         IN  IF Len(a) > HistoryCap THEN Tail(a) ELSE a
    ELSE h

\* record_entry: copy of new_data with session_id and a formatted timestamp
RecordEntry(x, sid) ==
    [seq |-> x.seq, ai_score |-> x.ai_score, session_id |-> sid,
     timestamp |-> Strftime(x.timestamp)]

\* variant of BufferUpdate: the recording flag is not consulted
MutBufferUpdate(buf, x, rec, sid) == Append(buf, RecordEntry(x, sid))

\* 2. Logika Perekaman (Recording)
BufferUpdate(buf, x, rec, sid) ==
    IF rec THEN Append(buf, RecordEntry(x, sid)) ELSE buf

\* float(data.get("ai_score", 0)) returns (does not raise)
FloatOk(d) == d.ai_score \in {"num", "absent"}

\* math.ceil(total_items / ITEMS_PER_PAGE)
TotalPages(n) == (n + ITEMS_PER_PAGE - 1) \div ITEMS_PER_PAGE

\* str(uuid.uuid4())[:8], as a fresh token
NewUuid(k) == k + 1

----------------------------------------------------------------------------
(* Initial state: session state after the "not in st.session_state" block *)

Init ==
    /\ data_queue = <<>>
    /\ latest_data = NoData
    /\ data_history = <<>>
    /\ recording = FALSE
    /\ recording_buffer = <<>>
    /\ session_id = None
    /\ table_page = 0
    /\ pc = "drain"
    /\ clicked = "none"
    /\ now = Time(0, 0)
    /\ received = 0
    /\ errors = 0
    /\ uuids = 0
    /\ horizon = MaxMsgs
    /\ pushed = <<>>
    /\ processed = <<>>
    /\ idle_seqs = {}
    /\ hist_base = 0

----------------------------------------------------------------------------
(* Listener thread *)

\* variant of on_message: the put is reached on the error path too
Mut_on_message(m, t) ==
    /\ received < horizon
    /\ received' = received + 1
    /\ LET payload == Stamp(m, received + 1, t)
       IN  /\ data_queue' = Put(data_queue, payload)
           /\ pushed' = Append(pushed, payload)
           /\ idle_seqs' = IF recording THEN idle_seqs
                           ELSE idle_seqs \cup {payload.seq}
           /\ now' = t
    /\ errors' = IF DecodeOk(m) THEN errors ELSE errors + 1
    /\ UNCHANGED <<session, pc, clicked, uuids, horizon, processed, hist_base>>

on_message(m, t) ==
    /\ received < horizon
    /\ received' = received + 1
    /\ IF DecodeOk(m)
       THEN LET payload == Stamp(m, received + 1, t)
            IN  /\ data_queue' = Put(data_queue, payload)
                /\ pushed' = Append(pushed, payload)
                /\ idle_seqs' = IF recording THEN idle_seqs
                                ELSE idle_seqs \cup {payload.seq}
                /\ now' = t
                /\ errors' = errors
       ELSE /\ errors' = errors + 1
            /\ UNCHANGED <<data_queue, pushed, idle_seqs, now>>
    /\ UNCHANGED <<session, pc, clicked, uuids, horizon, processed, hist_base>>

OnMessage == \E m \in Messages : \E t \in ClockNext(now) : on_message(m, t)

----------------------------------------------------------------------------
(* Script thread *)

\* st.rerun(): the script starts over, no button reports a click
Rerun == pc' = "drain" /\ clicked' = "none"

\* one iteration of "while not data_queue.empty()"
DrainItem ==
    /\ pc = "drain"
    /\ data_queue # <<>>
    /\ LET new_data == Head(data_queue)
       IN  /\ data_queue' = GetRest(data_queue)
           /\ latest_data' = new_data
           /\ data_history' = HistoryUpdate(data_history, new_data)
           /\ recording_buffer' =
                 BufferUpdate(recording_buffer, new_data, recording, session_id)
           /\ processed' = Append(processed, new_data)
    /\ UNCHANGED <<recording, session_id, table_page, pc, clicked, now,
                   received, errors, uuids, horizon, pushed, idle_seqs,
                   hist_base>>

\* data_queue.empty() is true: the loop ends
DrainEnd ==
    /\ pc = "drain"
    /\ data_queue = <<>>
    /\ pc' = "sidebar"
    /\ UNCHANGED <<data_queue, session, clicked, now, received, errors, uuids,
                   horizon, logs>>

\* variant of StartRecording: the buffer of the previous session is kept
MutStartKeepsBuffer ==
    /\ pc = "sidebar"
    /\ clicked = "start"
    /\ recording' = TRUE
    /\ session_id' = NewUuid(uuids)
    /\ uuids' = uuids + 1
    /\ table_page' = 0
    /\ Rerun
    /\ UNCHANGED <<data_queue, latest_data, data_history, recording_buffer,
                   now, received, errors, horizon, logs>>

\* variant of StartRecording: the live chart is reset with the session
MutStartClearsHistory ==
    /\ pc = "sidebar"
    /\ clicked = "start"
    /\ recording' = TRUE
    /\ session_id' = NewUuid(uuids)
    /\ uuids' = uuids + 1
    /\ recording_buffer' = <<>>
    /\ table_page' = 0
    /\ data_history' = <<>>
    /\ hist_base' = Len(processed)
    /\ Rerun
    /\ UNCHANGED <<data_queue, latest_data, now, received, errors, horizon,
                   pushed, processed, idle_seqs>>

\* Tombol Start
StartRecording ==
    /\ pc = "sidebar"
    /\ clicked = "start"
    /\ recording' = TRUE
    /\ session_id' = NewUuid(uuids)
    /\ uuids' = uuids + 1
    /\ recording_buffer' = <<>>
    /\ table_page' = 0
    /\ Rerun
    /\ UNCHANGED <<data_queue, latest_data, data_history, now, received,
                   errors, horizon, logs>>

\* variant of StopRecording: the buffer is emptied on stop
MutStopRecording ==
    /\ pc = "sidebar"
    /\ clicked = "stop"
    /\ recording' = FALSE
    /\ recording_buffer' = <<>>
    /\ Rerun
    /\ UNCHANGED <<data_queue, latest_data, data_history, session_id,
                   table_page, now, received, errors, uuids, horizon, logs>>

\* Tombol Stop
StopRecording ==
    /\ pc = "sidebar"
    /\ clicked = "stop"
    /\ recording' = FALSE
    /\ Rerun
    /\ UNCHANGED <<data_queue, latest_data, data_history, recording_buffer,
                   session_id, table_page, now, received, errors, uuids,
                   horizon, logs>>

\* Hapus Grafik Live
ClearHistory ==
    /\ pc = "sidebar"
    /\ clicked = "clear"
    /\ data_history' = <<>>
    /\ hist_base' = Len(processed)
    /\ Rerun
    /\ UNCHANGED <<data_queue, latest_data, recording, recording_buffer,
                   session_id, table_page, now, received, errors, uuids,
                   horizon, pushed, processed, idle_seqs>>

\* no sidebar button reported a click
SidebarPass ==
    /\ pc = "sidebar"
    /\ clicked \notin {"start", "stop", "clear"}
    /\ pc' = "header"
    /\ UNCHANGED <<data_queue, session, clicked, now, received, errors, uuids,
                   horizon, logs>>

\* if not data: st.info, time.sleep(2), st.rerun()
HeaderWaiting ==
    /\ pc = "header"
    /\ latest_data = NoData
    /\ pc' = "sleep"
    /\ UNCHANGED <<data_queue, session, clicked, now, received, errors, uuids,
                   horizon, logs>>

\* ai_score = float(data.get("ai_score", 0)) raises: the run ends there
HeaderFail ==
    /\ pc = "header"
    /\ latest_data # NoData
    /\ ~FloatOk(latest_data)
    /\ pc' = "failed"
    /\ UNCHANGED <<data_queue, session, clicked, now, received, errors, uuids,
                   horizon, logs>>

\* header, map, gauge, metrics and trend chart are drawn
HeaderOk ==
    /\ pc = "header"
    /\ latest_data # NoData
    /\ FloatOk(latest_data)
    /\ pc' = "table"
    /\ UNCHANGED <<data_queue, session, clicked, now, received, errors, uuids,
                   horizon, logs>>

\* "Sebelumnya"
PrevPage ==
    /\ pc = "table"
    /\ recording_buffer # <<>>
    /\ clicked = "prev"
    /\ IF table_page > 0
       THEN table_page' = table_page - 1 /\ Rerun
       ELSE table_page' = table_page /\ pc' = "sleep" /\ clicked' = clicked
    /\ UNCHANGED <<data_queue, latest_data, data_history, recording,
                   recording_buffer, session_id, now, received, errors, uuids,
                   horizon, logs>>

\* variant of NextPage: the last page is not checked
MutNextPage ==
    /\ pc = "table"
    /\ recording_buffer # <<>>
    /\ clicked = "next"
    /\ table_page' = table_page + 1
    /\ Rerun
    /\ UNCHANGED <<data_queue, latest_data, data_history, recording,
                   recording_buffer, session_id, now, received, errors, uuids,
                   horizon, logs>>

\* "Selanjutnya"
NextPage ==
    /\ pc = "table"
    /\ recording_buffer # <<>>
    /\ clicked = "next"
    /\ IF table_page < TotalPages(Len(recording_buffer)) - 1
       THEN table_page' = table_page + 1 /\ Rerun
       ELSE table_page' = table_page /\ pc' = "sleep" /\ clicked' = clicked
    /\ UNCHANGED <<data_queue, latest_data, data_history, recording,
                   recording_buffer, session_id, now, received, errors, uuids,
                   horizon, logs>>

\* no navigation click: the page slice is shown, or the "Belum ada data" note
TableRender ==
    /\ pc = "table"
    /\ recording_buffer = <<>> \/ clicked \notin {"prev", "next"}
    /\ pc' = "sleep"
    /\ UNCHANGED <<data_queue, session, clicked, now, received, errors, uuids,
                   horizon, logs>>

\* Auto Refresh: time.sleep(2); st.rerun()
AutoRefresh ==
    /\ pc = "sleep"
    /\ Rerun
    /\ UNCHANGED <<data_queue, session, now, received, errors, uuids, horizon,
                   logs>>

\* the buttons the page shows enabled once the run has drawn them
Enabled(b) ==
    CASE b = "start" -> ~recording /\ uuids < MaxSessions
      [] b = "stop"  -> recording
      [] b = "clear" -> TRUE
      [] OTHER       -> pc = "sleep" /\ recording_buffer # <<>>

\* the operator clicks a button: Streamlit runs the script again and the
\* button reports the click in that run
UserClick(b) ==
    /\ pc \in {"sleep", "failed"}
    /\ Enabled(b)
    /\ pc' = "drain"
    /\ clicked' = b
    /\ UNCHANGED <<data_queue, session, now, received, errors, uuids, horizon,
                   logs>>

Click == \E b \in Buttons : UserClick(b)

----------------------------------------------------------------------------

Next ==
    \/ OnMessage
    \/ DrainItem
    \/ DrainEnd
    \/ StartRecording
    \/ StopRecording
    \/ ClearHistory
    \/ SidebarPass
    \/ HeaderWaiting
    \/ HeaderFail
    \/ HeaderOk
    \/ PrevPage
    \/ NextPage
    \/ TableRender
    \/ AutoRefresh
    \/ Click

Spec == Init /\ [][Next]_vars

(* A session in progress: HistoryCap messages have arrived one per second
   and have been drained; recording was started before the last
   ITEMS_PER_PAGE of them arrived, so the table shows one full page. *)

WarmObs(i) == [seq |-> i, timestamp |-> Time(i, 0), ai_score |-> "num"]

WarmLog(n) == [i \in 1..n |-> WarmObs(i)]

WarmIdle == HistoryCap - ITEMS_PER_PAGE

InitWarm ==
    /\ data_queue = <<>>
    /\ latest_data = WarmObs(HistoryCap)
    /\ data_history = WarmLog(HistoryCap)
    /\ recording = TRUE
    /\ recording_buffer =
          [i \in 1..ITEMS_PER_PAGE |-> RecordEntry(WarmObs(WarmIdle + i), 1)]
    /\ session_id = 1
    /\ table_page = 0
    /\ pc = "sleep"
    /\ clicked = "none"
    /\ now = Time(HistoryCap, 0)
    /\ received = HistoryCap
    /\ errors = 0
    /\ uuids = 1
    /\ horizon = HistoryCap + MaxWarmMsgs
    /\ pushed = WarmLog(HistoryCap)
    /\ processed = WarmLog(HistoryCap)
    /\ idle_seqs = 1..WarmIdle
    /\ hist_base = 0

SpecWarm == (Init \/ InitWarm) /\ [][Next]_vars

----------------------------------------------------------------------------
(* Properties *)

IsPrefix(s, t) == Len(s) <= Len(t) /\ SubSeq(t, 1, Len(s)) = s

LastN(s, n) == IF Len(s) <= n THEN s ELSE SubSeq(s, Len(s) - n + 1, Len(s))

\* the entries lo..hi of s whose timestamp differs from that of the entry
\* before them in s, in order (the range is halved to keep the nesting low)
RECURSIVE DistinctIn(_, _, _)
DistinctIn(s, lo, hi) ==
    IF lo > hi THEN <<>>
    ELSE IF lo = hi
         THEN IF lo = 1 \/ s[lo - 1].timestamp # s[lo].timestamp
              THEN <<s[lo]>> ELSE <<>>
         ELSE LET mid == (lo + hi) \div 2
              IN  DistinctIn(s, lo, mid) \o DistinctIn(s, mid + 1, hi)

DistinctStamps(s) == DistinctIn(s, 1, Len(s))

\* the step is one iteration of the drain loop / the end of the loop
DrainStep == processed' # processed
DrainEnds == pc = "drain" /\ pc' # "drain"

\* the step is the start / stop / clear handler
StartStep == pc = "sidebar" /\ pc' # "sidebar" /\ clicked = "start"
StopStep  == pc = "sidebar" /\ pc' # "sidebar" /\ clicked = "stop"
ClearStep == pc = "sidebar" /\ pc' # "sidebar" /\ clicked = "clear"

\* the step is the table section handling a navigation click
PrevStep == pc = "table" /\ pc' # "table" /\ clicked = "prev"
NextStep == pc = "table" /\ pc' # "table" /\ clicked = "next"

\* C1: whatever the interleaving of on_message with the drain loop, the
\* observations put on the queue are exactly those the drain loop has taken,
\* in put order, followed by those still queued (none lost, none twice), and
\* the drain loop ends only on an empty queue.
C1_DrainInPushOrder ==
    /\ [](pushed = processed \o data_queue)
    /\ [][DrainEnds => data_queue = <<>> /\ data_queue' = <<>>]_vars

C1_Witness ==
    /\ pc = "sidebar"
    /\ Len(processed) >= 2
    /\ data_queue = <<>>

\* C2: a record is appended to recording_buffer only by a drain iteration
\* that runs while recording is True, the record carries the session_id of
\* that moment, and a drain iteration while recording is False leaves the
\* buffer as it is.
C2_AppendOnlyWhileRecording ==
    /\ [][Len(recording_buffer') > Len(recording_buffer) =>
            /\ recording
            /\ DrainStep
            /\ recording_buffer' =
                 Append(recording_buffer,
                        recording_buffer'[Len(recording_buffer')])
            /\ recording_buffer'[Len(recording_buffer')].session_id = session_id
            /\ recording_buffer'[Len(recording_buffer')].seq =
                 Head(data_queue).seq]_vars
    /\ [][DrainStep /\ ~recording =>
            recording_buffer' = recording_buffer]_vars

C2_Witness ==
    /\ ~recording
    /\ recording_buffer # <<>>
    /\ Len(processed) > Len(recording_buffer)
    /\ processed[Len(processed)].seq >
         recording_buffer[Len(recording_buffer)].seq

\* C3: the start handler leaves recording True, the buffer empty, the table
\* on page 0 and a session_id that differs from the one before.
C3_StartResets ==
    [][StartStep =>
         /\ ~recording
         /\ recording'
         /\ recording_buffer' = <<>>
         /\ table_page' = 0
         /\ session_id' # session_id
         /\ session_id' # None]_vars

C3_Witness ==
    /\ recording
    /\ session_id = 2
    /\ recording_buffer = <<>>
    /\ table_page = 0
    /\ Len(processed) > HistoryCap

\* C4: the stop handler changes the recording flag and nothing else of the
\* session state, and the buffer only ever grows at its end except when the
\* start handler empties it.
C4_StopKeepsSession ==
    /\ [][StopStep =>
            /\ recording
            /\ ~recording'
            /\ UNCHANGED <<session_id, recording_buffer, latest_data,
                           data_history, table_page, data_queue>>]_vars
    /\ [][\/ IsPrefix(recording_buffer, recording_buffer')
          \/ StartStep /\ recording_buffer' = <<>>]_vars

C4_Witness ==
    /\ ~recording
    /\ pc = "drain"
    /\ clicked = "none"
    /\ recording_buffer # <<>>
    /\ session_id = 1

\* C5: data_history never holds more than HistoryCap entries; an append to
\* a full history evicts its first entry; the history is the last
\* HistoryCap of the distinct-timestamp observations drained since it was
\* last emptied, in drain order.
C5_HistoryIsRecentWindow ==
    /\ [](Len(data_history) <= HistoryCap)
    /\ [][DrainStep /\ Len(data_history) = HistoryCap
            /\ data_history' # data_history =>
            data_history' = Append(Tail(data_history), Head(data_queue))]_vars
    /\ [](data_history =
            LastN(DistinctStamps(SubSeq(processed, hist_base + 1,
                                        Len(processed))), HistoryCap))

C5_Witness ==
    /\ Len(data_history) = HistoryCap
    /\ data_history[1].seq = 2
    /\ data_history[HistoryCap].seq = HistoryCap + 1

\* C6: no run of the script ends before its rerun is scheduled.
C6_RunNeverInterrupted == pc # "failed"

\* C7: a message whose payload does not decode to an object changes nothing
\* but the error output, and a message that decodes is stamped and put at
\* the end of the queue, whatever came before it.
C7_BadPayloadDropped ==
    /\ [][errors' # errors =>
            /\ received' = received + 1
            /\ UNCHANGED <<data_queue, session, pc, clicked, now, pushed>>]_vars
    /\ [][received' # received /\ errors' = errors =>
            /\ Len(data_queue') = Len(data_queue) + 1
            /\ IsPrefix(data_queue, data_queue')
            /\ data_queue'[Len(data_queue')].seq = received'
            /\ data_queue'[Len(data_queue')].timestamp = now'
            /\ UNCHANGED <<session, pc, clicked>>]_vars
    /\ [](errors + Len(pushed) = received)

C7_Witness ==
    /\ errors >= 1
    /\ data_queue # <<>>
    /\ data_queue[Len(data_queue)].seq = received
    /\ data_queue[Len(data_queue)].seq > 1

\* C8 as stated: latest_data and data_history change in drain iterations only.
C8_OnlyDrainWrites ==
    [][latest_data' # latest_data \/ data_history' # data_history =>
         DrainStep]_vars

\* C8 amended: latest_data changes in drain iterations only; data_history
\* changes in drain iterations and when the clear handler empties it.
C8_DrainAndClearWrite ==
    /\ [][latest_data' # latest_data => DrainStep]_vars
    /\ [][data_history' # data_history =>
            DrainStep \/ (ClearStep /\ data_history' = <<>>)]_vars

C8_Witness ==
    /\ data_history = <<>>
    /\ hist_base > 0
    /\ latest_data # NoData
    /\ uuids > 0

\* C9: "previous" on page 0 and "next" on the last page leave table_page as
\* it is, any other navigation moves it by one, nothing but navigation and
\* start changes it, start sets it to 0, and with a non-empty buffer
\* 0 <= table_page <= total_pages - 1.
C9_PageClamps ==
    /\ [](recording_buffer # <<>> =>
            /\ table_page >= 0
            /\ table_page <= TotalPages(Len(recording_buffer)) - 1)
    /\ [][PrevStep =>
            table_page' = IF table_page = 0 THEN 0 ELSE table_page - 1]_vars
    /\ [][NextStep =>
            table_page' =
              IF table_page = TotalPages(Len(recording_buffer)) - 1
              THEN table_page ELSE table_page + 1]_vars
    /\ [][StartStep => table_page' = 0]_vars
    /\ [][table_page' # table_page => PrevStep \/ NextStep \/ StartStep]_vars

C9_Witness ==
    /\ pc = "sleep"
    /\ clicked = "next"
    /\ table_page = 1
    /\ TotalPages(Len(recording_buffer)) = 2

\* C10: no record in the buffer comes from an observation that the listener
\* put on the queue while recording was False.
C10_IdlePushNotRecorded ==
    \A i \in 1..Len(recording_buffer) : recording_buffer[i].seq \notin idle_seqs

TypeOK ==
    /\ pc \in {"drain", "sidebar", "header", "table", "sleep", "failed"}
    /\ clicked \in Buttons \cup {"none"}
    /\ recording \in BOOLEAN
    /\ table_page \in Nat

====
